---- MODULE Spec2Model ----
(***************************************************************************)
(* Parking-Management: the spot-allocation and billing state machine of    *)
(* src/app.py over the tables of src/models.py.                            *)
(*                                                                         *)
(* Money is kept in cents and time in seconds, so that                     *)
(* round(hours * rate, 2) is an integer computation.                       *)
(***************************************************************************)
EXTENDS Integers, Sequences, FiniteSets, TLC

\* ------------------------------------------------------------- bounds
MaxLots  == 2     \* largest lot id handed out
MaxSpots == 2     \* largest maximum_number_of_spots entered in the form
MaxRes   == 2     \* reservation rows ever inserted
MaxTick  == 1     \* the clock reads 0..MaxTick half hours
NumUsers == 2     \* registered users of role 'user'
NumReqs  == 2     \* requests served at the same time

\* ---------------------------------------------------------- constants
SecondsPerHour == 3600
CostDigits     == 2

Users       == 1..NumUsers
HalfHour    == SecondsPerHour \div 2
Times       == {k * HalfHour : k \in 0..MaxTick}
PriceInputs == {0, 10}               \* what the price field may hold
SpotInputs  == 0..MaxSpots           \* what the spots field may hold
NameInputs  == {"", "Mall"}          \* stripped prime_location_name
LotIdInputs == 1..(MaxLots + 1)      \* <int:lot_id> of the URL

\* SQL NULL is the empty sequence, a value v is <<v>>
NULL     == <<>>
Some(v)  == <<v>>
Val(s)   == s[1]

VARIABLES lots, spots, reservations, reqs

vars == <<lots, spots, reservations, reqs>>

Max(S) == CHOOSE x \in S : \A y \in S : y <= x
Min(S) == CHOOSE x \in S : \A y \in S : x <= y

\* the integer primary key SQLite gives a new row: largest rowid + 1
NextId(ids) == IF ids = {} THEN 1 ELSE Max(ids) + 1

LotIds  == DOMAIN lots
SpotIds == DOMAIN spots
ResIds  == DOMAIN reservations

\* ------------------------------------------------------------ models.py

\* ParkingSpot.spot_number: first three letters of the lot name, uppercased,
\* and the ordinal (printed zero-padded to three digits)
Prefix(name) == IF name = "Mall" THEN "MAL" ELSE name

SpotNumber(name, ordinal) == <<Prefix(name), ordinal>>

SpotsOfLot(sp, l) == {s \in DOMAIN sp : sp[s].lot_id = l}

\* ParkingLot.available_spots_count / occupied_spots_count
available_spots_count(sp, l) ==
    Cardinality({s \in SpotsOfLot(sp, l) : sp[s].status = "A"})

\* delete_parking_lot without its occupied-spots check
occupied_spots_count_unchecked(sp, l) == 0

occupied_spots_count(sp, l) ==
    Cardinality({s \in SpotsOfLot(sp, l) : sp[s].status = "O"})

\* round(x, 2) of Python on the quotient n / d (d > 0): to the nearest
\* integer, a tie to the even one (on an exact tie the binary value of the
\* float decides in Python; the clock readings and rates used here give none)
RoundHalfEven(n, d) ==
    LET q == n \div d
        r == n % d
    IN  IF 2 * r < d THEN q
        ELSE IF 2 * r > d THEN q + 1
        ELSE IF q % 2 = 0 THEN q ELSE q + 1

\* the duration in whole hours
duration_seconds_floored(res) ==
    ((Val(res.leaving_timestamp) - res.parking_timestamp) \div SecondsPerHour)
        * SecondsPerHour

\* ParkingReservation.duration_hours of a closed reservation, in seconds
\* (the property divides them by 3600)
duration_seconds(res) == Val(res.leaving_timestamp) - res.parking_timestamp

\* ParkingReservation.calculate_total_cost, in cents
calculate_total_cost(res) ==
    IF res.leaving_timestamp # NULL
    THEN RoundHalfEven(duration_seconds(res) * res.parking_cost_per_unit_time
                           * (10 ^ CostDigits),
                       SecondsPerHour)
    ELSE 0

\* -------------------------------------------------------------- queries

\* the filter without leaving_timestamp=None
OpenOfUser_anytime(res, u) == {r \in DOMAIN res : res[r].user_id = u}

\* ParkingReservation.query.filter_by(user_id=u, leaving_timestamp=None).first()
\* (0 stands for None)
OpenOfUser(res, u) ==
    {r \in DOMAIN res : res[r].user_id = u /\ res[r].leaving_timestamp = NULL}

ActiveReservation(res, u) ==
    IF OpenOfUser(res, u) = {} THEN 0 ELSE Min(OpenOfUser(res, u))

\* book_spot without its existing-reservation check
AlreadyParked_unchecked(res, u) == FALSE

\* book_spot, lines 339-341: if existing_reservation
AlreadyParked(res, u) == ActiveReservation(res, u) # 0

\* release_spot, lines 392-394: if not reservation
NoActiveReservation(res, u) == ActiveReservation(res, u) = 0

\* the filter without status='A'
AvailableSpots_anystatus(sp, l) == SpotsOfLot(sp, l)

\* ParkingSpot.query.filter_by(lot_id=l, status='A').first(): SQLite scans
\* the table in rowid order (0 stands for None)
AvailableSpots(sp, l) == {s \in SpotsOfLot(sp, l) : sp[s].status = "A"}

\* the query answered from the other end of the table
FirstAvailableSpot_last(sp, l) ==
    IF AvailableSpots(sp, l) = {} THEN 0 ELSE Max(AvailableSpots(sp, l))

FirstAvailableSpot(sp, l) ==
    IF AvailableSpots(sp, l) = {} THEN 0 ELSE Min(AvailableSpots(sp, l))

\* --------------------------------------------------------------- writes

\* create_parking_lot: the lot row and its spots 1..max_spots, all 'A'
\* (of a lot's columns the model keeps price and maximum_number_of_spots; the
\* name lives on in the spot numbers, address and pin_code are not read again)
NewLotRow(name, price, max_spots) ==
    [price |-> price, maximum_number_of_spots |-> max_spots]

\* the loop of lines 205-212 stopping one spot short
NewSpotRows_short(sp, l, name, max_spots) ==
    LET base == NextId(DOMAIN sp) - 1
    IN  [s \in (base + 1)..(base + max_spots - 1) |->
            [lot_id |-> l, spot_number |-> SpotNumber(name, s - base),
             status |-> "A"]]

NewSpotRows(sp, l, name, max_spots) ==
    LET base == NextId(DOMAIN sp) - 1
    IN  [s \in (base + 1)..(base + max_spots) |->
            [lot_id |-> l, spot_number |-> SpotNumber(name, s - base),
             status |-> "A"]]

\* edit_parking_lot: the price is overwritten in place, the capacity is not
\* touched
EditedLotRow(lot, price) == [lot EXCEPT !.price = price]

\* book_spot: the reservation row that is inserted
NewReservationRow(u, s, price, t) ==
    [spot_id |-> s, user_id |-> u, parking_timestamp |-> t,
     leaving_timestamp |-> NULL, parking_cost_per_unit_time |-> price,
     total_cost |-> NULL]

\* the booking that leaves the spot's status alone
OccupySpot_forgotten(sp, s) == sp

\* book_spot: available_spot.status = 'O' (an UPDATE by primary key)
OccupySpot(sp, s) == [sp EXCEPT ![s].status = "O"]

\* the release that stamps the departure and leaves total_cost alone
ClosedReservationRow_uncharged(res, t) ==
    [res EXCEPT !.leaving_timestamp = Some(t)]

\* release_spot: leaving_timestamp = utcnow(), total_cost = calculate_total_cost()
ClosedReservationRow(res, t) ==
    LET left == [res EXCEPT !.leaving_timestamp = Some(t)]
    IN  [left EXCEPT !.total_cost = Some(calculate_total_cost(left))]

\* the release that leaves the spot's status alone
FreeSpot_forgotten(sp, s) == sp

\* release_spot: spot = ParkingSpot.query.get(spot_id); if spot: status = 'A'
FreeSpot(sp, s) ==
    IF s \in DOMAIN sp THEN [sp EXCEPT ![s].status = "A"] ELSE sp

\* a store that lets the reservations of a deleted spot dangle
DeleteNullifiesSpotId_ignored(res, sp, l) == FALSE

\* delete_parking_lot: session.delete(lot) cascades to the lot's spots
\* (cascade='all, delete-orphan'); the reservations of a deleted spot are not
\* cascaded to, so the flush sets their spot_id to NULL, which the column
\* (nullable=False) refuses
DeleteNullifiesSpotId(res, sp, l) ==
    \E r \in DOMAIN res : res[r].spot_id \in SpotsOfLot(sp, l)

Restrict(f, S) == [x \in S |-> f[x]]

\* ------------------------------------------------------------- handlers

\* the tables, as one value
Tables(l, s, r) == [lots |-> l, spots |-> s, reservations |-> r]

DB == Tables(lots, spots, reservations)

\* what a handler leaves behind: the tables, and what it answered (the kind of
\* its flash message, the spot it names, the count it names)
Answer(db, result, s, n) == [db |-> db, result |-> result, spot |-> s, count |-> n]

\* create_parking_lot (POST): validation, then lot and spots in one commit
create_parking_lot(db, name, price, max_spots, commits) ==
    IF name = "" \/ price <= 0 \/ max_spots <= 0
    THEN Answer(db, "ValidationError", 0, 0)
    ELSE IF commits
    THEN LET l == NextId(DOMAIN db.lots)
         IN  Answer(Tables((l :> NewLotRow(name, price, max_spots)) @@ db.lots,
                           NewSpotRows(db.spots, l, name, max_spots) @@ db.spots,
                           db.reservations),
                    "Success", 0, 0)
    ELSE Answer(db, "PersistenceFailure", 0, 0)

\* edit_parking_lot that also reprices the open reservations of the lot
edit_parking_lot_retroactive(db, l, price, commits) ==
    IF l \notin DOMAIN db.lots
    THEN Answer(db, "NotFound", 0, 0)
    ELSE IF commits
    THEN Answer(Tables([db.lots EXCEPT ![l] = EditedLotRow(db.lots[l], price)],
                       db.spots,
                       [r \in DOMAIN db.reservations |->
                           IF /\ db.reservations[r].leaving_timestamp = NULL
                              /\ db.reservations[r].spot_id \in SpotsOfLot(db.spots, l)
                           THEN [db.reservations[r] EXCEPT
                                    !.parking_cost_per_unit_time = price]
                           ELSE db.reservations[r]]),
                "Success", 0, 0)
    ELSE Answer(db, "PersistenceFailure", 0, 0)

\* edit_parking_lot (POST)
edit_parking_lot(db, l, price, commits) ==
    IF l \notin DOMAIN db.lots
    THEN Answer(db, "NotFound", 0, 0)
    ELSE IF commits
    THEN Answer([db EXCEPT !.lots[l] = EditedLotRow(db.lots[l], price)],
                "Success", 0, 0)
    ELSE Answer(db, "PersistenceFailure", 0, 0)

\* delete_parking_lot over a store that deletes the reservations of the
\* lot's spots with them
delete_parking_lot_cascading(db, l, commits) ==
    IF l \notin DOMAIN db.lots
    THEN Answer(db, "NotFound", 0, 0)
    ELSE IF occupied_spots_count(db.spots, l) > 0
    THEN Answer(db, "Conflict", 0, occupied_spots_count(db.spots, l))
    ELSE IF commits
    THEN LET gone == SpotsOfLot(db.spots, l)
             Stays(row) == row.spot_id \notin gone
         IN  Answer(Tables(Restrict(db.lots, DOMAIN db.lots \ {l}),
                           Restrict(db.spots, DOMAIN db.spots \ gone),
                           SelectSeq(db.reservations, Stays)),
                    "Success", 0, 0)
    ELSE Answer(db, "PersistenceFailure", 0, 0)

\* delete_parking_lot
delete_parking_lot(db, l, commits) ==
    IF l \notin DOMAIN db.lots
    THEN Answer(db, "NotFound", 0, 0)
    ELSE IF occupied_spots_count(db.spots, l) > 0
    THEN Answer(db, "Conflict", 0, occupied_spots_count(db.spots, l))
    ELSE IF commits /\ ~DeleteNullifiesSpotId(db.reservations, db.spots, l)
    THEN Answer(Tables(Restrict(db.lots, DOMAIN db.lots \ {l}),
                       Restrict(db.spots,
                                DOMAIN db.spots \ SpotsOfLot(db.spots, l)),
                       db.reservations),
                "Success", 0, 0)
    ELSE Answer(db, "PersistenceFailure", 0, 0)

\* book_spot whose failed commit is not rolled back: the spot stays Occupied
book_first_available_partial(db, u, l, t, commits) ==
    IF FirstAvailableSpot(db.spots, l) = 0
    THEN Answer(db, "CapacityExceeded", 0, 0)
    ELSE LET s == FirstAvailableSpot(db.spots, l)
         IN  IF commits
             THEN Answer(Tables(db.lots,
                                OccupySpot(db.spots, s),
                                Append(db.reservations,
                                       NewReservationRow(u, s, db.lots[l].price, t))),
                         "Success", s, 0)
             ELSE Answer(Tables(db.lots, OccupySpot(db.spots, s), db.reservations),
                         "PersistenceFailure", 0, 0)

\* book_spot, lines 349-374: the spot query and the commit
book_first_available(db, u, l, t, commits) ==
    IF FirstAvailableSpot(db.spots, l) = 0
    THEN Answer(db, "CapacityExceeded", 0, 0)
    ELSE IF commits
    THEN LET s == FirstAvailableSpot(db.spots, l)
         IN  Answer(Tables(db.lots,
                           OccupySpot(db.spots, s),
                           Append(db.reservations,
                                  NewReservationRow(u, s, db.lots[l].price, t))),
                    "Success", s, 0)
    ELSE Answer(db, "PersistenceFailure", 0, 0)

\* book_spot with the lot looked up before the existing-reservation check
book_spot_lot_first(db, u, l, t, commits) ==
    IF l \notin DOMAIN db.lots
    THEN Answer(db, "NotFound", 0, 0)
    ELSE IF AlreadyParked(db.reservations, u)
    THEN Answer(db, "AlreadyParked", 0, 0)
    ELSE book_first_available(db, u, l, t, commits)

\* book_spot
book_spot(db, u, l, t, commits) ==
    IF AlreadyParked(db.reservations, u)
    THEN Answer(db, "AlreadyParked", 0, 0)
    ELSE IF l \notin DOMAIN db.lots
    THEN Answer(db, "NotFound", 0, 0)
    ELSE book_first_available(db, u, l, t, commits)

\* release_spot that reports success and writes nothing
release_spot_unsaved(db, u, t, commits) ==
    IF NoActiveReservation(db.reservations, u)
    THEN Answer(db, "NoActiveReservation", 0, 0)
    ELSE IF commits
    THEN Answer(db, "Success", db.reservations[ActiveReservation(db.reservations, u)].spot_id, 0)
    ELSE Answer(db, "PersistenceFailure", 0, 0)

\* release_spot
release_spot(db, u, t, commits) ==
    IF NoActiveReservation(db.reservations, u)
    THEN Answer(db, "NoActiveReservation", 0, 0)
    ELSE IF commits
    THEN LET r == ActiveReservation(db.reservations, u)
             s == db.reservations[r].spot_id
         IN  Answer(Tables(db.lots,
                           FreeSpot(db.spots, s),
                           [db.reservations EXCEPT
                               ![r] = ClosedReservationRow(db.reservations[r], t)]),
                    "Success", s, 0)
    ELSE Answer(db, "PersistenceFailure", 0, 0)

\* ---------------------------------------------------------------- state

\* a request being served: where its handler stands (pc), what it was asked
\* (user, lot) and what its queries returned (price, spot, res, and gone: the
\* spots session.delete has loaded); a handler that has answered leaves
\* nothing behind but the tables
NoRequest == [pc |-> "idle", user |-> 0, lot |-> 0, price |-> 0, spot |-> 0,
              res |-> 0, gone |-> {}]

ReqIds == 1..NumReqs

Init ==
    /\ lots = <<>>
    /\ spots = <<>>
    /\ reservations = <<>>
    /\ reqs = [q \in ReqIds |-> NoRequest]

\* the tables after a handler has run
Persist(out) ==
    /\ lots' = out.db.lots
    /\ spots' = out.db.spots
    /\ reservations' = out.db.reservations

\* --------------------------------------------- handlers, run to completion

CreateLot(name, price, max_spots, commits) ==
    /\ NextId(LotIds) <= MaxLots
    /\ Persist(create_parking_lot(DB, name, price, max_spots, commits))
    /\ UNCHANGED reqs

EditLot(l, price, commits) ==
    /\ Persist(edit_parking_lot(DB, l, price, commits))
    /\ UNCHANGED reqs

DeleteLot(l, commits) ==
    /\ Persist(delete_parking_lot(DB, l, commits))
    /\ UNCHANGED reqs

Book(u, l, t, commits) ==
    /\ Len(reservations) < MaxRes
    /\ Persist(book_spot(DB, u, l, t, commits))
    /\ UNCHANGED reqs

Release(u, t, commits) ==
    /\ Persist(release_spot(DB, u, t, commits))
    /\ UNCHANGED reqs

Next ==
    \/ \E name \in NameInputs, price \in PriceInputs, n \in SpotInputs,
          commits \in BOOLEAN : CreateLot(name, price, n, commits)
    \/ \E l \in LotIdInputs, price \in PriceInputs, commits \in BOOLEAN :
          EditLot(l, price, commits)
    \/ \E l \in LotIdInputs, commits \in BOOLEAN : DeleteLot(l, commits)
    \/ \E u \in Users, l \in LotIdInputs, t \in Times, commits \in BOOLEAN :
          Book(u, l, t, commits)
    \/ \E u \in Users, t \in Times, commits \in BOOLEAN : Release(u, t, commits)

Spec == Init /\ [][Next]_vars

\* a parked user keeps asking for the release, and the commit of a release
\* does not fail forever
ReleaseIsServed ==
    \A u \in Users : WF_vars(\E t \in Times : Release(u, t, TRUE))

SpecLive == Init /\ [][Next]_vars /\ ReleaseIsServed

\* ------------------------------------------------------------- billing
\* calculate_total_cost over a wider range of clock readings and rates: one
\* user parked on the one spot of one lot, then released

CostTimes == {0, 1, 60, 1800, 3600, 5400, 9000, 9060}
CostRates == {10, 15}

InitCost ==
    \E p \in CostRates, a \in CostTimes :
        /\ lots = (1 :> NewLotRow("Mall", p, 1))
        /\ spots = OccupySpot(NewSpotRows(<<>>, 1, "Mall", 1), 1)
        /\ reservations = <<NewReservationRow(1, 1, p, a)>>
        /\ reqs = [q \in ReqIds |-> NoRequest]

NextCost ==
    \E u \in Users, t \in CostTimes, commits \in BOOLEAN : Release(u, t, commits)

SpecCost == InitCost /\ [][NextCost]_vars

\* ------------------------------------- handlers, one query or commit a step
\* Every query reads the committed tables (SQLite opens the transaction at the
\* first write of the flush), every commit writes them in one transaction.

Asked(pc, u, l) == [NoRequest EXCEPT !.pc = pc, !.user = u, !.lot = l]

BookPcs == {"book_lot", "book_spot", "book_commit"}

BooksInFlight == Cardinality({q \in ReqIds : reqs[q].pc \in BookPcs})

\* book_spot, lines 334-341: the existing-reservation query
BookCheck(q, u, l) ==
    /\ reqs[q].pc = "idle"
    /\ Len(reservations) + BooksInFlight < MaxRes
    /\ reqs' = [reqs EXCEPT ![q] =
           IF AlreadyParked(reservations, u)
           THEN NoRequest
           ELSE Asked("book_lot", u, l)]
    /\ UNCHANGED <<lots, spots, reservations>>

\* book_spot, lines 344-347: the lot query
BookLot(q) ==
    /\ reqs[q].pc = "book_lot"
    /\ reqs' = [reqs EXCEPT ![q] =
           IF reqs[q].lot \notin LotIds
           THEN NoRequest
           ELSE [reqs[q] EXCEPT !.pc = "book_spot",
                                !.price = lots[reqs[q].lot].price]]
    /\ UNCHANGED <<lots, spots, reservations>>

\* book_spot, lines 350-354: the first-available-spot query
BookSpot(q) ==
    /\ reqs[q].pc = "book_spot"
    /\ reqs' = [reqs EXCEPT ![q] =
           IF FirstAvailableSpot(spots, reqs[q].lot) = 0
           THEN NoRequest
           ELSE [reqs[q] EXCEPT !.pc = "book_commit",
                                !.spot = FirstAvailableSpot(spots, reqs[q].lot)]]
    /\ UNCHANGED <<lots, spots, reservations>>

\* book_spot, lines 356-374: UPDATE of the spot by primary key (an error when
\* the row is gone), INSERT of the reservation, commit
BookCommit(q, t, commits) ==
    /\ reqs[q].pc = "book_commit"
    /\ IF commits /\ reqs[q].spot \in SpotIds
       THEN /\ spots' = OccupySpot(spots, reqs[q].spot)
            /\ reservations' = Append(reservations,
                   NewReservationRow(reqs[q].user, reqs[q].spot, reqs[q].price, t))
            /\ reqs' = [reqs EXCEPT ![q] = NoRequest]
       ELSE /\ reqs' = [reqs EXCEPT ![q] = NoRequest]
            /\ UNCHANGED <<spots, reservations>>
    /\ UNCHANGED lots

\* release_spot, lines 387-394: the active-reservation query
ReleaseFind(q, u) ==
    /\ reqs[q].pc = "idle"
    /\ reqs' = [reqs EXCEPT ![q] =
           IF NoActiveReservation(reservations, u)
           THEN NoRequest
           ELSE [Asked("release_commit", u, 0) EXCEPT
                    !.res = ActiveReservation(reservations, u)]]
    /\ UNCHANGED <<lots, spots, reservations>>

\* release_spot, lines 396-413: UPDATE of the reservation by primary key, the
\* spot query, UPDATE of the spot, commit
ReleaseCommit(q, t, commits) ==
    /\ reqs[q].pc = "release_commit"
    /\ IF commits
       THEN LET r == reqs[q].res
            IN  /\ reservations' = [reservations EXCEPT
                       ![r] = ClosedReservationRow(reservations[r], t)]
                /\ spots' = FreeSpot(spots, reservations[r].spot_id)
                /\ reqs' = [reqs EXCEPT ![q] = NoRequest]
       ELSE /\ reqs' = [reqs EXCEPT ![q] = NoRequest]
            /\ UNCHANGED <<spots, reservations>>
    /\ UNCHANGED lots

\* delete_parking_lot, line 259: the lot query
DeleteFind(q, l) ==
    /\ reqs[q].pc = "idle"
    /\ reqs' = [reqs EXCEPT ![q] =
           IF l \notin LotIds
           THEN NoRequest
           ELSE Asked("delete_count", 0, l)]
    /\ UNCHANGED <<lots, spots, reservations>>

\* delete_parking_lot, lines 262-265: the occupied-spot count
DeleteCount(q) ==
    /\ reqs[q].pc = "delete_count"
    /\ reqs' = [reqs EXCEPT ![q] =
           IF occupied_spots_count(spots, reqs[q].lot) > 0
           THEN NoRequest
           ELSE [reqs[q] EXCEPT !.pc = "delete_load"]]
    /\ UNCHANGED <<lots, spots, reservations>>

\* delete_parking_lot, lines 268-269: session.delete(lot) loads the lot's
\* spots and the flush of the commit loads their reservations, all read from
\* the committed tables before the first DELETE opens the transaction; a
\* reservation found makes the flush fail (its spot_id cannot be set to
\* NULL), and the handler rolls back
DeleteLoad(q) ==
    /\ reqs[q].pc = "delete_load"
    /\ reqs' = [reqs EXCEPT ![q] =
           IF DeleteNullifiesSpotId(reservations, spots, reqs[q].lot)
           THEN NoRequest
           ELSE [reqs[q] EXCEPT !.pc = "delete_write",
                                !.gone = SpotsOfLot(spots, reqs[q].lot)]]
    /\ UNCHANGED <<lots, spots, reservations>>

\* delete_parking_lot, lines 269-273: DELETE of the loaded spots and of the
\* lot by primary key (SQLite does not enforce the foreign keys), commit
DeleteCommit(q, commits) ==
    /\ reqs[q].pc = "delete_write"
    /\ IF commits
       THEN /\ lots' = Restrict(lots, LotIds \ {reqs[q].lot})
            /\ spots' = Restrict(spots, SpotIds \ reqs[q].gone)
            /\ reqs' = [reqs EXCEPT ![q] = NoRequest]
       ELSE /\ reqs' = [reqs EXCEPT ![q] = NoRequest]
            /\ UNCHANGED <<lots, spots>>
    /\ UNCHANGED reservations

NextConc ==
    \/ \E name \in NameInputs, price \in PriceInputs, n \in SpotInputs,
          commits \in BOOLEAN : CreateLot(name, price, n, commits)
    \/ \E q \in ReqIds, u \in Users, l \in LotIdInputs : BookCheck(q, u, l)
    \/ \E q \in ReqIds : BookLot(q)
    \/ \E q \in ReqIds : BookSpot(q)
    \/ \E q \in ReqIds, t \in Times, commits \in BOOLEAN : BookCommit(q, t, commits)
    \/ \E q \in ReqIds, u \in Users : ReleaseFind(q, u)
    \/ \E q \in ReqIds, t \in Times, commits \in BOOLEAN : ReleaseCommit(q, t, commits)

SpecConc == Init /\ [][NextConc]_vars

\* ------------------------------- delete_parking_lot among bookings, stepwise
\* The lots are there from the start (created by create_parking_lot), and
\* Book, Release and DeleteLot requests overlap.

RECURSIVE LotTables(_)
LotTables(k) ==
    IF k = 0
    THEN {Tables(<<>>, <<>>, <<>>)}
    ELSE {create_parking_lot(db, "Mall", price, n, TRUE).db :
              db \in LotTables(k - 1),
              price \in {p \in PriceInputs : p > 0},
              n \in 1..MaxSpots}

InitDel ==
    \E k \in 1..MaxLots : \E db \in LotTables(k) :
        /\ lots = db.lots
        /\ spots = db.spots
        /\ reservations = db.reservations
        /\ reqs = [q \in ReqIds |-> NoRequest]

NextDel ==
    \/ \E q \in ReqIds, u \in Users, l \in LotIdInputs : BookCheck(q, u, l)
    \/ \E q \in ReqIds : BookLot(q)
    \/ \E q \in ReqIds : BookSpot(q)
    \/ \E q \in ReqIds, t \in Times, commits \in BOOLEAN : BookCommit(q, t, commits)
    \/ \E q \in ReqIds, u \in Users : ReleaseFind(q, u)
    \/ \E q \in ReqIds, t \in Times, commits \in BOOLEAN : ReleaseCommit(q, t, commits)
    \/ \E q \in ReqIds, l \in LotIdInputs : DeleteFind(q, l)
    \/ \E q \in ReqIds : DeleteCount(q)
    \/ \E q \in ReqIds : DeleteLoad(q)
    \/ \E q \in ReqIds, commits \in BOOLEAN : DeleteCommit(q, commits)

SpecDel == InitDel /\ [][NextDel]_vars

\* ================================================================ claims

IsOpen(r)   == reservations[r].leaving_timestamp = NULL
IsClosed(r) == reservations[r].leaving_timestamp # NULL

OpenRes      == {r \in ResIds : IsOpen(r)}
OpenBy(u)    == {r \in OpenRes : reservations[r].user_id = u}
OpenOn(s)    == {r \in OpenRes : reservations[r].spot_id = s}
ClosedBy(u)  == {r \in ResIds : IsClosed(r) /\ reservations[r].user_id = u}

\* C1: after any sequence of completed operations every user has at most one
\* reservation whose departure timestamp is null.
C1_AtMostOneOpenPerUser ==
    \A u \in Users : Cardinality(OpenBy(u)) <= 1

\* a user who released and booked again: one closed and one open reservation
C1_Witness ==
    \E u \in Users : OpenBy(u) # {} /\ ClosedBy(u) # {}

\* C2: after any sequence of completed operations every existing spot is
\* Occupied exactly when one open reservation references it, and no spot is
\* referenced by two or more open reservations.
C2_OccupiedIffOneOpen ==
    \A s \in SpotIds :
        /\ (spots[s].status = "O") <=> (Cardinality(OpenOn(s)) = 1)
        /\ Cardinality(OpenOn(s)) <= 1

\* an Occupied spot with its open reservation next to an Available spot that
\* was released before
C2_Witness ==
    \E s1, s2 \in SpotIds :
        /\ spots[s1].status = "O" /\ OpenOn(s1) # {}
        /\ spots[s2].status = "A"
        /\ \E r \in ResIds : IsClosed(r) /\ reservations[r].spot_id = s2

\* C3: of two concurrent Book calls by different users for the one Available
\* spot of a lot only one succeeds: in no reachable state do two open
\* reservations of different users reference the same spot.
C3_NoDoubleAssignment ==
    \A r1, r2 \in OpenRes :
        (reservations[r1].user_id # reservations[r2].user_id)
            => reservations[r1].spot_id # reservations[r2].spot_id

\* C4: two concurrent Book calls of the same user create at most one
\* reservation: the user never holds two open reservations.
C4_OneOpenPerUserConcurrent ==
    \A u \in Users : \A r1, r2 \in OpenBy(u) : r1 = r2

\* C5: of two concurrent Release calls of one user only one closes the
\* reservation: departure timestamp and total cost of a closed reservation are
\* written once and never overwritten.
C5_ClosedWrittenOnce ==
    [][\A r \in ResIds : IsClosed(r) => reservations'[r] = reservations[r]]_vars

\* C6: Book by a user who holds an open reservation answers AlreadyParked and
\* changes nothing, whichever lot is requested (existing or not).
C6_AlreadyParkedNoChange ==
    \A u \in Users : OpenBy(u) # {} =>
        \A l \in LotIdInputs, t \in Times, commits \in BOOLEAN :
            LET out == book_spot(DB, u, l, t, commits)
            IN  out.result = "AlreadyParked" /\ out.db = DB

\* a parked user while another lot with an Available spot exists and a
\* requested lot does not
C6_Witness ==
    \E u \in Users : \E r \in OpenBy(u) : \E l1, l2 \in LotIds :
        /\ spots[reservations[r].spot_id].lot_id = l1
        /\ l2 # l1
        /\ AvailableSpots(spots, l2) # {}
        /\ LotIdInputs \ LotIds # {}

\* C7: Book by a user without an open reservation on an existing lot without
\* an Available spot answers CapacityExceeded and leaves lots, spots and
\* reservations unchanged.
C7_CapacityExceededNoChange ==
    \A u \in Users, l \in LotIds :
        (OpenBy(u) = {} /\ \A s \in SpotIds :
                              spots[s].lot_id = l => spots[s].status # "A")
        => \A t \in Times, commits \in BOOLEAN :
               LET out == book_spot(DB, u, l, t, commits)
               IN  out.result = "CapacityExceeded" /\ out.db = DB

\* a full lot and a user who is not parked
C7_Witness ==
    \E u \in Users, l \in LotIds :
        /\ OpenBy(u) = {}
        /\ \A s \in SpotIds : spots[s].lot_id = l => spots[s].status = "O"
        /\ \E s \in SpotIds : spots[s].lot_id = l

\* C8: Release by a user without an open reservation (so also a second Release
\* right after a successful one) answers NoActiveReservation and leaves every
\* reservation and every spot unchanged.
C8_NoActiveReservationNoChange ==
    \A u \in Users : OpenBy(u) = {} =>
        \A t \in Times, commits \in BOOLEAN :
            LET out == release_spot(DB, u, t, commits)
            IN  out.result = "NoActiveReservation" /\ out.db = DB

\* a user right after a successful Release: a closed reservation, none open,
\* the spot Available again
C8_Witness ==
    \E u \in Users : \E r \in ClosedBy(u) :
        /\ OpenBy(u) = {}
        /\ reservations[r].spot_id \in SpotIds
        /\ spots[reservations[r].spot_id].status = "A"

\* C9: a successful Book by U followed by Release by U takes the chosen spot
\* from Available to Occupied and back, leaves U without open reservation and
\* every other spot as before; what remains is one more closed reservation.
C9_BookReleaseRoundTrip ==
    \A u \in Users, l \in LotIdInputs, t1 \in Times, t2 \in Times :
        LET booked == book_spot(DB, u, l, t1, TRUE)
            s      == booked.spot
            back   == release_spot(booked.db, u, t2, TRUE)
            n      == Len(reservations)
        IN  booked.result = "Success" =>
              /\ spots[s].status = "A"
              /\ booked.db.spots[s].status = "O"
              /\ \A x \in SpotIds \ {s} : booked.db.spots[x] = spots[x]
              /\ back.result = "Success"
              /\ back.db.spots = spots
              /\ back.db.lots = lots
              /\ Len(back.db.reservations) = n + 1
              /\ SubSeq(back.db.reservations, 1, n) = reservations
              /\ back.db.reservations[n + 1].leaving_timestamp # NULL
              /\ back.db.reservations[n + 1].user_id = u
              /\ back.db.reservations[n + 1].spot_id = s
              /\ \A r \in 1..(n + 1) :
                     back.db.reservations[r].user_id = u
                         => back.db.reservations[r].leaving_timestamp # NULL

\* the state after a round trip next to an Occupied spot that stayed Occupied
C9_Witness ==
    \E s1, s2 \in SpotIds : \E r \in ResIds :
        /\ s1 # s2
        /\ IsClosed(r) /\ reservations[r].spot_id = s1
        /\ r = Len(reservations)
        /\ spots[s1].status = "A"
        /\ spots[s2].status = "O"

\* C10: every closed reservation has total cost >= 0 and departure >= arrival.
C10_CostAndDurationNonNegative ==
    \A r \in ResIds : IsClosed(r) =>
        /\ Val(reservations[r].total_cost) >= 0
        /\ Val(reservations[r].leaving_timestamp) >= reservations[r].parking_timestamp

\* the ordinal in a spot's number
Ordinal(s) == spots[s].spot_number[2]

\* the Available spots of lot l
Free(l) == {s \in SpotIds : spots[s].lot_id = l /\ spots[s].status = "A"}

\* C11: Book on an existing lot by a user without an open reservation assigns
\* the Available spot with the lowest ordinal of that lot, whatever mix of
\* Available and Occupied spots the lot has.
C11_LowestOrdinalFirst ==
    \A u \in Users, l \in LotIds :
        (OpenBy(u) = {} /\ Free(l) # {}) =>
            \A t \in Times :
                LET out == book_spot(DB, u, l, t, TRUE)
                    n   == Len(reservations)
                IN  /\ out.result = "Success"
                    /\ out.spot \in Free(l)
                    /\ \A x \in Free(l) : Ordinal(out.spot) <= Ordinal(x)
                    /\ out.db.reservations[n + 1].spot_id = out.spot

\* lots in both mixes: a released lower spot below an Occupied one, and a lot
\* with two Available spots
C11_Witness ==
    /\ \E s1, s2 \in SpotIds :
          /\ spots[s1].lot_id = spots[s2].lot_id
          /\ Ordinal(s1) < Ordinal(s2)
          /\ spots[s1].status = "A" /\ spots[s2].status = "O"
          /\ \E r \in ResIds : IsClosed(r) /\ reservations[r].spot_id = s1
    /\ \E l \in LotIds : Cardinality(Free(l)) >= 2

\* the expected charge in cents: seconds / 3600 * rate, to the nearest cent
IsNearestCent(c, secs, rate) ==
    LET exact == secs * rate * (10 ^ CostDigits)
        diff  == c * SecondsPerHour - exact
    IN  2 * diff <= SecondsPerHour /\ 2 * diff >= -SecondsPerHour

\* C12: the rate of a reservation is the lot's price at Book and stays: an
\* EditLot between Book and Release changes neither the captured rate nor the
\* total cost of the Release, which is computed from the captured rate.
C12_CapturedRateFrozen ==
    \A u \in Users, l \in LotIds, t1 \in Times, t2 \in Times, p \in PriceInputs :
        LET booked   == book_spot(DB, u, l, t1, TRUE)
            n        == Len(reservations) + 1
            edited   == edit_parking_lot(booked.db, l, p, TRUE)
            released == release_spot(edited.db, u, t2, TRUE)
            plain    == release_spot(booked.db, u, t2, TRUE)
        IN  booked.result = "Success" =>
              /\ booked.db.reservations[n].parking_cost_per_unit_time = lots[l].price
              /\ edited.result = "Success"
              /\ edited.db.lots[l].price = p
              /\ edited.db.reservations = booked.db.reservations
              /\ released.result = "Success"
              /\ released.db.reservations[n].parking_cost_per_unit_time = lots[l].price
              /\ released.db.reservations[n] = plain.db.reservations[n]
              /\ IsNearestCent(Val(released.db.reservations[n].total_cost),
                               t2 - t1, lots[l].price)

\* a reservation booked at 10, closed after the lot was repriced to 0, and
\* charged at 10
C12_Witness ==
    \E r \in ResIds :
        /\ IsClosed(r)
        /\ reservations[r].spot_id \in SpotIds
        /\ reservations[r].parking_cost_per_unit_time
               # lots[spots[reservations[r].spot_id].lot_id].price
        /\ Val(reservations[r].total_cost) > 0

Elapsed(r) ==
    Val(reservations[r].leaving_timestamp) - reservations[r].parking_timestamp

\* C13: Release sets the total cost to the elapsed seconds / 3600 (fractional
\* hours, not floored) times the captured rate, rounded to 2 decimals; 2.5
\* hours at rate 10 give 25.00.
C13_CostIsRoundedHoursTimesRate ==
    \A r \in ResIds : IsClosed(r) =>
        /\ IsNearestCent(Val(reservations[r].total_cost), Elapsed(r),
                         reservations[r].parking_cost_per_unit_time)
        /\ (Elapsed(r) = 9000 /\ reservations[r].parking_cost_per_unit_time = 10)
               => Val(reservations[r].total_cost) = 2500

\* 2.5 hours at rate 10, released and charged 25.00, the spot Available
C13_Witness ==
    \E r \in ResIds :
        /\ IsClosed(r)
        /\ reservations[r].parking_cost_per_unit_time = 10
        /\ Elapsed(r) = 9000
        /\ Val(reservations[r].total_cost) = 2500
        /\ spots[reservations[r].spot_id].status = "A"

\* the Occupied spots of lot l
Taken(l) == {s \in SpotIds : spots[s].lot_id = l /\ spots[s].status = "O"}

\* C14: DeleteLot on a lot with at least one Occupied spot answers Conflict
\* with the number of its Occupied spots and leaves lots, spots and
\* reservations unchanged.
C14_DeleteOccupiedConflict ==
    \A l \in LotIds : Taken(l) # {} =>
        \A commits \in BOOLEAN :
            LET out == delete_parking_lot(DB, l, commits)
            IN  /\ out.result = "Conflict"
                /\ out.count = Cardinality(Taken(l))
                /\ out.db = DB

\* a lot with one Occupied spot among several, next to a lot whose only
\* spot is Occupied
C14_Witness ==
    \E l1, l2 \in LotIds :
        /\ Cardinality(Taken(l1)) = 1
        /\ Free(l1) # {}
        /\ Cardinality(Taken(l2)) = 1
        /\ Free(l2) = {}

\* C15: DeleteLot on an existing lot none of whose spots is Occupied succeeds
\* and removes the lot together with all of its spots, whether or not its
\* spots have closed reservations in their history (the store committing).
C15_DeleteFreeLotSucceeds ==
    \A l \in LotIds : Taken(l) = {} =>
        LET out == delete_parking_lot(DB, l, TRUE)
        IN  /\ out.result = "Success"
            /\ l \notin DOMAIN out.db.lots
            /\ \A s \in DOMAIN out.db.spots : out.db.spots[s].lot_id # l
            /\ \A s \in SpotIds : spots[s].lot_id # l => s \in DOMAIN out.db.spots

\* C16: every persisted reservation, open or closed, references a spot that
\* exists and belongs to a lot that exists, also after lots have been deleted.
C16_ReservationsReferenceLiveSpots ==
    \A r \in ResIds :
        /\ reservations[r].spot_id \in SpotIds
        /\ spots[reservations[r].spot_id].lot_id \in LotIds

\* a lot has been deleted while a closed reservation is on record
C16_Witness ==
    /\ LotIds # {}
    /\ 1 \notin LotIds
    /\ \E r \in ResIds : IsClosed(r)

\* lot l of tables db has exactly maximum_number_of_spots spots, numbered
\* 1..maximum_number_of_spots, each Available or Occupied
LotIsFull(db, l) ==
    LET S == SpotsOfLot(db.spots, l)
        n == db.lots[l].maximum_number_of_spots
    IN  /\ Cardinality(S) = n
        /\ {db.spots[s].spot_number[2] : s \in S} = 1..n
        /\ \A s \in S : db.spots[s].status \in {"A", "O"}
        /\ available_spots_count(db.spots, l) + occupied_spots_count(db.spots, l) = n

\* tables db2 have the lots and spots of tables db1, with the same capacity,
\* lot and ordinal
SameSpots(db1, db2) ==
    /\ DOMAIN db2.lots = DOMAIN db1.lots
    /\ DOMAIN db2.spots = DOMAIN db1.spots
    /\ \A l \in DOMAIN db1.lots :
           db2.lots[l].maximum_number_of_spots = db1.lots[l].maximum_number_of_spots
    /\ \A s \in DOMAIN db1.spots :
           /\ db2.spots[s].lot_id = db1.spots[s].lot_id
           /\ db2.spots[s].spot_number = db1.spots[s].spot_number

\* C17: every lot has exactly maximum_number_of_spots spots with the distinct
\* ordinals 1..maximum_number_of_spots, each Available or Occupied; CreateLot
\* creates them all Available and leaves the other lots' spots alone; EditLot,
\* Book and Release add, remove and renumber no spot and keep every capacity.
C17_LotHasItsSpots ==
    /\ \A l \in LotIds : LotIsFull(DB, l)
    /\ \A name \in NameInputs, price \in PriceInputs, n \in SpotInputs :
           LET out == create_parking_lot(DB, name, price, n, TRUE)
               l   == NextId(LotIds)
           IN  out.result = "Success" =>
                   /\ DOMAIN out.db.lots = LotIds \cup {l}
                   /\ out.db.lots[l].maximum_number_of_spots = n
                   /\ LotIsFull(out.db, l)
                   /\ available_spots_count(out.db.spots, l) = n
                   /\ \A s \in SpotIds : out.db.spots[s] = spots[s]
    /\ \A l \in LotIdInputs, price \in PriceInputs, commits \in BOOLEAN :
           SameSpots(DB, edit_parking_lot(DB, l, price, commits).db)
    /\ \A u \in Users, l \in LotIdInputs, t \in Times, commits \in BOOLEAN :
           SameSpots(DB, book_spot(DB, u, l, t, commits).db)
    /\ \A u \in Users, t \in Times, commits \in BOOLEAN :
           SameSpots(DB, release_spot(DB, u, t, commits).db)

\* a lot of two spots, one Occupied and one released, whose price has been
\* edited
C17_Witness ==
    \E l \in LotIds :
        /\ lots[l].maximum_number_of_spots = 2
        /\ lots[l].price = 0
        /\ Taken(l) # {}
        /\ \E r \in ResIds : IsClosed(r) /\ reservations[r].spot_id \in Free(l)

\* C18: a reservation's total_cost is non-null exactly when its
\* leaving_timestamp is non-null.
C18_CostIffDeparture ==
    \A r \in ResIds :
        (reservations[r].total_cost # NULL) <=>
            (reservations[r].leaving_timestamp # NULL)

\* a released reservation next to an open one
C18_Witness ==
    \E r1, r2 \in ResIds :
        /\ reservations[r1].leaving_timestamp # NULL
        /\ reservations[r1].total_cost # NULL
        /\ reservations[r2].leaving_timestamp = NULL
        /\ reservations[r2].total_cost = NULL

\* C19: when the commit of CreateLot, Book or Release fails, the handler
\* answers with a failure and lots, spots and reservations are exactly as
\* before: no lot and none of its spots, no Occupied spot and no new
\* reservation, the reservation still open and its spot still Occupied.
C19_FailedCommitChangesNothing ==
    /\ \A name \in NameInputs, price \in PriceInputs, n \in SpotInputs :
           create_parking_lot(DB, name, price, n, TRUE).result = "Success" =>
               LET out == create_parking_lot(DB, name, price, n, FALSE)
               IN  out.result = "PersistenceFailure" /\ out.db = DB
    /\ \A u \in Users, l \in LotIdInputs, t \in Times :
           book_spot(DB, u, l, t, TRUE).result = "Success" =>
               LET out == book_spot(DB, u, l, t, FALSE)
               IN  /\ out.result = "PersistenceFailure"
                   /\ out.db = DB
                   /\ OpenOfUser(out.db.reservations, u) = {}
                   /\ AvailableSpots(out.db.spots, l) = Free(l)
    /\ \A u \in Users, t \in Times :
           release_spot(DB, u, t, TRUE).result = "Success" =>
               LET out == release_spot(DB, u, t, FALSE)
               IN  /\ out.result = "PersistenceFailure"
                   /\ out.db = DB
                   /\ \E r \in OpenOfUser(out.db.reservations, u) :
                          /\ out.db.reservations[r].total_cost = NULL
                          /\ out.db.spots[out.db.reservations[r].spot_id].status = "O"

\* a state where each of the three reaches its commit: room for a lot, a user
\* who may book an Available spot, a parked user who may release
C19_Witness ==
    /\ NextId(LotIds) <= MaxLots
    /\ \E u \in Users, l \in LotIds : OpenBy(u) = {} /\ Free(l) # {}
    /\ \E u \in Users : OpenBy(u) # {}

\* the reservations of tables db2 are those of the current state, row for row
SameReservations(db2) == db2.reservations = reservations

\* C20: a reservation is created open and is written once more, by the
\* Release that sets its leaving_timestamp and total_cost; a closed
\* reservation is changed in none of its fields by Book, Release, EditLot,
\* CreateLot or DeleteLot, and no operation deletes a reservation.
C20_ClosedReservationImmutable ==
    /\ \A name \in NameInputs, price \in PriceInputs, n \in SpotInputs,
          commits \in BOOLEAN :
           SameReservations(create_parking_lot(DB, name, price, n, commits).db)
    /\ \A l \in LotIdInputs, price \in PriceInputs, commits \in BOOLEAN :
           SameReservations(edit_parking_lot(DB, l, price, commits).db)
    /\ \A l \in LotIdInputs, commits \in BOOLEAN :
           SameReservations(delete_parking_lot(DB, l, commits).db)
    /\ \A u \in Users, l \in LotIdInputs, t \in Times, commits \in BOOLEAN :
           LET res2 == book_spot(DB, u, l, t, commits).db.reservations
           IN  /\ \A r \in ResIds : r \in DOMAIN res2 /\ res2[r] = reservations[r]
               /\ \A r \in DOMAIN res2 \ ResIds :
                      res2[r].leaving_timestamp = NULL /\ res2[r].total_cost = NULL
    /\ \A u \in Users, t \in Times, commits \in BOOLEAN :
           LET res2 == release_spot(DB, u, t, commits).db.reservations
           IN  /\ DOMAIN res2 = ResIds
               /\ \A r \in ResIds :
                      \/ res2[r] = reservations[r]
                      \/ /\ IsOpen(r)
                         /\ reservations[r].user_id = u
                         /\ res2[r] = [reservations[r] EXCEPT
                                          !.leaving_timestamp = res2[r].leaving_timestamp,
                                          !.total_cost = res2[r].total_cost]
                         /\ res2[r].leaving_timestamp # NULL
                         /\ res2[r].total_cost # NULL

\* a closed reservation whose spot has been booked again and whose lot has
\* been repriced since
C20_Witness ==
    \E r1, r2 \in ResIds :
        /\ IsClosed(r1)
        /\ r2 > r1
        /\ reservations[r2].spot_id = reservations[r1].spot_id
        /\ lots[spots[reservations[r1].spot_id].lot_id].price
               # reservations[r1].parking_cost_per_unit_time

\* C21: every persisted lot has a price > 0 and a maximum_number_of_spots
\* > 0; CreateLot with a blank name or a non-positive price or capacity
\* answers ValidationError and persists nothing; EditLot leaves no lot with
\* a zero or negative price.
C21_LotRateAndCapacityPositive ==
    /\ \A l \in LotIds :
           lots[l].price > 0 /\ lots[l].maximum_number_of_spots > 0
    /\ \A name \in NameInputs, price \in PriceInputs, n \in SpotInputs,
          commits \in BOOLEAN :
           (name = "" \/ price <= 0 \/ n <= 0) =>
               LET out == create_parking_lot(DB, name, price, n, commits)
               IN  out.result = "ValidationError" /\ out.db = DB
    /\ \A l \in LotIds, price \in PriceInputs, commits \in BOOLEAN :
           edit_parking_lot(DB, l, price, commits).db.lots[l].price > 0

\* C22: with DeleteLot and Book requests overlapping on a lot, no open
\* reservation ever references a spot that has been deleted or a spot of a
\* lot that has been deleted.
C22_OpenReservationKeepsItsSpot ==
    \A r \in OpenRes :
        /\ reservations[r].spot_id \in SpotIds
        /\ spots[reservations[r].spot_id].lot_id \in LotIds

\* user u holds an open reservation on spot s
ParkedOn(u, s) == \E r \in OpenBy(u) : reservations[r].spot_id = s

\* user u is Idle, or Parked: one open reservation, on an Occupied spot that
\* no other open reservation is on
IdleOrParked(u) ==
    \/ OpenBy(u) = {}
    \/ \E r \in OpenBy(u) :
          /\ OpenBy(u) = {r}
          /\ reservations[r].spot_id \in SpotIds
          /\ spots[reservations[r].spot_id].status = "O"
          /\ OpenOn(reservations[r].spot_id) = {r}

\* a Release by a Parked user, the store committing, succeeds and leaves the
\* user Idle and the spot Available
CanRelease(u) ==
    \A s \in SpotIds : ParkedOn(u, s) =>
        \A t \in Times :
            LET out == release_spot(DB, u, t, TRUE)
            IN  /\ out.result = "Success"
                /\ OpenOfUser(out.db.reservations, u) = {}
                /\ out.db.spots[s].status = "A"

\* C23: a user is always Idle or Parked; a Parked user can always release;
\* and when releases are served (ReleaseIsServed), a Parked user eventually
\* is Idle with the spot they held Available.
C23_ParkedIsNeverADeadEnd ==
    /\ [](\A u \in Users : IdleOrParked(u) /\ CanRelease(u))
    /\ \A r \in 1..MaxRes :
           (r \in OpenRes) ~>
               /\ r \in ResIds
               /\ IsClosed(r)
               /\ OpenBy(reservations[r].user_id) = {}
               /\ reservations[r].spot_id \in SpotIds
               /\ spots[reservations[r].spot_id].status = "A"

\* a user who has parked and released, Idle with that spot Available, while
\* the other user is Parked
C23_Witness ==
    \E u1, u2 \in Users : \E r \in ClosedBy(u1) :
        /\ OpenBy(u1) = {}
        /\ spots[reservations[r].spot_id].status = "A"
        /\ OpenBy(u2) # {}

====
